---- MODULE Spec2Model ----
(***************************************************************************)
(* Model of the ChatGPT MCP tool server (index.ts): the CallTool request   *)
(* handler, the reachability check, the rate limiter, the automation       *)
(* script of ask (conversation selection, clipboard transport, response    *)
(* polling) and the conversation listing.                                  *)
(*                                                                         *)
(* Every text is a TLA+ string.  An optional value (a JavaScript value     *)
(* that may be undefined) is a sequence of length 0 or 1.                  *)
(***************************************************************************)
EXTENDS Integers, Sequences, FiniteSets, TLC

(***************************************************************************)
(* Bounds of the model.                                                    *)
(***************************************************************************)
NumCalls == 2
MaxTicks == 3
StartTime == 1000000

(***************************************************************************)
(* Program constants.                                                      *)
(***************************************************************************)
RATE_LIMIT_DELAY == 120000
maxWaitTime == 120
pollInterval == 3
StableChecks == 3

Calls == 1..NumCalls
TickUnit == RATE_LIMIT_DELAY \div 2
MaxTime == StartTime + MaxTicks * TickUnit

None == <<>>
Some(v) == <<v>>
IsSome(o) == Len(o) = 1
Val(o) == o[1]

CharAt(s, i) == SubSeq(s, i, i)

(***************************************************************************)
(* Inputs of the tool call.                                                *)
(***************************************************************************)
ToolNames == {"chatgpt", "other"}
Operations == {"ask", "get_conversations", "delete"}
Prompts == {"", "hi", "a\"b", "a\\"}
ConversationIds == {"Trip plan"}
DelayValues == {0, TickUnit, StartTime + TickUnit}

ArgsSet ==
  [operation : Operations,
   prompt : {None} \cup {Some(p) : p \in Prompts},
   conversation_id : {None} \cup {Some(i) : i \in ConversationIds},
   delay_ms : {None} \cup {Some(d) : d \in DelayValues}]

Requests == [name : ToolNames, arguments : {None} \cup {Some(a) : a \in ArgsSet}]

NoArgs == [operation |-> "", prompt |-> None, conversation_id |-> None, delay_ms |-> None]

(***************************************************************************)
(* Texts the target application shows in its response area.                *)
(***************************************************************************)
ResponseTexts == {"", "xxx", "xxxxx", "xxxxxxxxx", "yyyyyyyyy"}
ClipboardContents == {"user text", "other text"}

VARIABLES
  now,                    \* Date.now()
  lastRequestTime,        \* module variable of index.ts
  dispatched,             \* whether an ask has been dispatched since the start
  clipboard,              \* the system clipboard
  pc,                     \* position of each tool call
  args,                   \* arguments of the call in flight
  wakeAt,                 \* time at which the rate limiter's sleep ends
  thePrompt,              \* script variable
  originalClipboard,      \* script variable
  pasteDelay,             \* script variable, in milliseconds
  waitTime,               \* script variable
  previousResponseLength, \* script variable
  stableResponseCount,    \* script variable
  responseText,           \* script variable
  result,                 \* result of the call: [isError, text]
  obs                     \* observations of the call, for the properties

vars == <<now, lastRequestTime, dispatched, clipboard, pc, args, wakeAt, thePrompt,
          originalClipboard, pasteDelay, waitTime, previousResponseLength,
          stableResponseCount, responseText, result, obs>>

scriptVars == <<thePrompt, originalClipboard, pasteDelay, waitTime,
                previousResponseLength, stableResponseCount, responseText>>

(* The rate limiter's state. *)
limiter == <<lastRequestTime, dispatched>>

NoResult == [isError |-> FALSE, text |-> ""]

NoObs ==
  [preClip |-> "",          \* clipboard content when the call started
   effects |-> {},          \* side effects the call has performed
   trail |-> <<>>,          \* the steps the call has taken, in order
   selected |-> None,       \* whether the click on the conversation succeeded
   cause |-> "none",        \* why the call failed or was degraded
   polls |-> 0,             \* polls performed
   lastLen |-> 0,           \* length observed by the latest poll
   run |-> 0,               \* latest consecutive polls of one non-zero length
   seen |-> "",             \* latest non-empty text a poll observed
   onA |-> TRUE,            \* polled lengths so far are a prefix of ScenarioA
   onB |-> TRUE,            \* polled lengths so far are a prefix of ScenarioB
   exit |-> "none",         \* how the polling loop ended
   reread |-> None,         \* what the read after a timeout returned
   buttons |-> None,        \* button names shown when listing
   listed |-> None]         \* value getConversations returned

(* A rate limiter whose timestamp starts at the time the process starts. *)
Init_StartsNow ==
  /\ now = StartTime
  /\ lastRequestTime = StartTime
  /\ dispatched = FALSE
  /\ clipboard \in ClipboardContents
  /\ pc = [c \in Calls |-> "idle"]
  /\ args = [c \in Calls |-> NoArgs]
  /\ wakeAt = [c \in Calls |-> 0]
  /\ thePrompt = [c \in Calls |-> ""]
  /\ originalClipboard = [c \in Calls |-> ""]
  /\ pasteDelay = [c \in Calls |-> 0]
  /\ waitTime = [c \in Calls |-> 0]
  /\ previousResponseLength = [c \in Calls |-> 0]
  /\ stableResponseCount = [c \in Calls |-> 0]
  /\ responseText = [c \in Calls |-> ""]
  /\ result = [c \in Calls |-> NoResult]
  /\ obs = [c \in Calls |-> NoObs]

Init ==
  /\ now = StartTime
  /\ lastRequestTime = 0
  /\ dispatched = FALSE
  /\ clipboard \in ClipboardContents
  /\ pc = [c \in Calls |-> "idle"]
  /\ args = [c \in Calls |-> NoArgs]
  /\ wakeAt = [c \in Calls |-> 0]
  /\ thePrompt = [c \in Calls |-> ""]
  /\ originalClipboard = [c \in Calls |-> ""]
  /\ pasteDelay = [c \in Calls |-> 0]
  /\ waitTime = [c \in Calls |-> 0]
  /\ previousResponseLength = [c \in Calls |-> 0]
  /\ stableResponseCount = [c \in Calls |-> 0]
  /\ responseText = [c \in Calls |-> ""]
  /\ result = [c \in Calls |-> NoResult]
  /\ obs = [c \in Calls |-> NoObs]


(***************************************************************************)
(* The environment: time passes, and the user copies something while no    *)
(* call is in flight.                                                      *)
(***************************************************************************)
Quiet == \A c \in Calls : pc[c] = "idle"

Tick ==
  /\ now + TickUnit <= MaxTime
  /\ now' = now + TickUnit
  /\ UNCHANGED <<limiter, clipboard, pc, args, wakeAt, scriptVars, result, obs>>

UserCopy ==
  /\ Quiet
  /\ \E t \in ClipboardContents : t # clipboard /\ clipboard' = t
  /\ UNCHANGED <<now, limiter, pc, args, wakeAt, scriptVars, result, obs>>

(***************************************************************************)
(* JavaScript truthiness of an optional string and of an optional number.  *)
(***************************************************************************)
(* A test for undefined in place of the truthiness test. *)
TruthyString_Defined(o) == IsSome(o)

TruthyString(o) == IsSome(o) /\ Val(o) # ""
TruthyNumber(o) == IsSome(o) /\ Val(o) # 0

(***************************************************************************)
(* isChatGPTArgs.  Every request of the model carries values of the right  *)
(* types, so the typeof tests of the function always pass.                 *)
(***************************************************************************)
isChatGPTArgs(a) ==
  /\ a.operation \in {"ask", "get_conversations"}
  /\ ~(a.operation = "ask" /\ ~TruthyString(a.prompt))

(* A catch block that returns the bare message. *)
ErrorText_NoPrefix(message) == message

ErrorText(message) == "Error: " \o message

Observe(c, cause, effect) ==
  [obs EXCEPT ![c].cause = cause, ![c].effects = @ \cup effect]

(* The catch block of the handler: the call ends with an error result. *)
Fail(c, message) ==
  /\ result' = [result EXCEPT ![c] = [isError |-> TRUE, text |-> ErrorText(message)]]
  /\ pc' = [pc EXCEPT ![c] = "done"]

(***************************************************************************)
(* The CallToolRequestSchema handler up to its first await.                *)
(***************************************************************************)
CallTool(c, req) ==
  /\ pc[c] = "idle"
  /\ LET fresh == [obs EXCEPT ![c] = [NoObs EXCEPT !.preClip = clipboard]]
     IN
     IF ~IsSome(req.arguments)
     THEN /\ Fail(c, "No arguments provided")
          /\ args' = [args EXCEPT ![c] = NoArgs]
          /\ obs' = [fresh EXCEPT ![c].cause = "validation"]
     ELSE IF req.name # "chatgpt"
     THEN /\ result' = [result EXCEPT ![c] =
                          [isError |-> TRUE, text |-> "Unknown tool: " \o req.name]]
          /\ pc' = [pc EXCEPT ![c] = "done"]
          /\ args' = [args EXCEPT ![c] = Val(req.arguments)]
          /\ obs' = [fresh EXCEPT ![c].cause = "unknowntool"]
     ELSE IF ~isChatGPTArgs(Val(req.arguments))
     THEN /\ Fail(c, "Invalid arguments for ChatGPT tool")
          /\ args' = [args EXCEPT ![c] = Val(req.arguments)]
          /\ obs' = [fresh EXCEPT ![c].cause = "validation"]
     ELSE IF Val(req.arguments).operation = "ask" /\ ~TruthyString(Val(req.arguments).prompt)
     THEN /\ Fail(c, "Prompt is required for ask operation")
          /\ args' = [args EXCEPT ![c] = Val(req.arguments)]
          /\ obs' = [fresh EXCEPT ![c].cause = "validation"]
     ELSE /\ pc' = [pc EXCEPT ![c] = "check"]
          /\ args' = [args EXCEPT ![c] = Val(req.arguments)]
          /\ result' = [result EXCEPT ![c] = NoResult]
          /\ obs' = fresh
  /\ UNCHANGED <<now, limiter, clipboard, wakeAt, scriptVars>>

(* The caller has received the result; the slot is free again. *)
Return(c) ==
  /\ pc[c] = "done"
  /\ pc' = [pc EXCEPT ![c] = "idle"]
  /\ args' = [args EXCEPT ![c] = NoArgs]
  /\ result' = [result EXCEPT ![c] = NoResult]
  /\ obs' = [obs EXCEPT ![c] = NoObs]
  /\ thePrompt' = [thePrompt EXCEPT ![c] = ""]
  /\ originalClipboard' = [originalClipboard EXCEPT ![c] = ""]
  /\ pasteDelay' = [pasteDelay EXCEPT ![c] = 0]
  /\ waitTime' = [waitTime EXCEPT ![c] = 0]
  /\ previousResponseLength' = [previousResponseLength EXCEPT ![c] = 0]
  /\ stableResponseCount' = [stableResponseCount EXCEPT ![c] = 0]
  /\ responseText' = [responseText EXCEPT ![c] = ""]
  /\ wakeAt' = [wakeAt EXCEPT ![c] = 0]
  /\ UNCHANGED <<now, limiter, clipboard>>

(***************************************************************************)
(* checkChatGPTAccess: the process query answers "true" or something else  *)
(* or fails; when the answer is not "true" the application is activated,   *)
(* which may fail.                                                         *)
(***************************************************************************)
ScriptError == "osascript: execution error"
AccessOutcomes == {"running", "launched", "activateFailed", "queryFailed"}

AccessError(outcome) ==
  "Cannot access ChatGPT app. Please make sure ChatGPT is installed and properly configured. Error: "
    \o (IF outcome = "activateFailed"
        THEN "Could not activate ChatGPT app. Please start it manually."
        ELSE ScriptError)

(* A reachability check that reports its failure and lets the call go on. *)
checkChatGPTAccess_GoesOn(c) ==
  /\ pc[c] = "check"
  /\ \E outcome \in AccessOutcomes :
       /\ pc' = [pc EXCEPT ![c] = IF args[c].operation = "ask" THEN "rate" ELSE "list"]
       /\ obs' = [obs EXCEPT ![c].effects = @ \cup {"reachability"},
                             ![c].trail = Append(@, "reachability"),
                             ![c].cause = IF outcome \in {"running", "launched"}
                                          THEN @ ELSE "reachability"]
       /\ UNCHANGED <<args, result>>
  /\ UNCHANGED <<now, limiter, clipboard, wakeAt, scriptVars>>

checkChatGPTAccess(c) ==
  /\ pc[c] = "check"
  /\ \E outcome \in AccessOutcomes :
       IF outcome \in {"running", "launched"}
       THEN /\ pc' = [pc EXCEPT ![c] = IF args[c].operation = "ask" THEN "rate" ELSE "list"]
            /\ obs' = [obs EXCEPT ![c].effects = @ \cup {"reachability"},
                                  ![c].trail = Append(@, "reachability")]
            /\ UNCHANGED <<args, result>>
       ELSE /\ Fail(c, AccessError(outcome))
            /\ obs' = [Observe(c, "reachability", {"reachability"})
                        EXCEPT ![c].trail = Append(@, "reachability")]
            /\ UNCHANGED args
  /\ UNCHANGED <<now, limiter, clipboard, wakeAt, scriptVars>>

(***************************************************************************)
(* waitForRateLimit and the assignment of lastRequestTime that follows it. *)
(***************************************************************************)
(* A rate limiter that falls back to no interval at all. *)
DelayToUse_NoDefault(customDelay) ==
  IF TruthyNumber(customDelay) THEN Val(customDelay) ELSE 0

DelayToUse(customDelay) ==
  IF TruthyNumber(customDelay) THEN Val(customDelay) ELSE RATE_LIMIT_DELAY

waitForRateLimit(c) ==
  /\ pc[c] = "rate"
  /\ LET timeSinceLastRequest == now - lastRequestTime
         delayToUse == DelayToUse(args[c].delay_ms)
     IN
     IF timeSinceLastRequest < delayToUse
     THEN /\ wakeAt' = [wakeAt EXCEPT ![c] = now + (delayToUse - timeSinceLastRequest)]
          /\ pc' = [pc EXCEPT ![c] = "sleep"]
     ELSE /\ pc' = [pc EXCEPT ![c] = "dispatch"]
          /\ UNCHANGED wakeAt
  /\ obs' = [obs EXCEPT ![c].effects = @ \cup {"ratelimit"},
                        ![c].trail = Append(@, "ratelimit")]
  /\ UNCHANGED <<now, limiter, clipboard, args, scriptVars, result>>

(* sleep(waitTime) returns once the time it was asked to wait has passed. *)
Wake(c) ==
  /\ pc[c] = "sleep"
  /\ now >= wakeAt[c]
  /\ pc' = [pc EXCEPT ![c] = "dispatch"]
  /\ UNCHANGED <<now, limiter, clipboard, args, wakeAt, scriptVars, result, obs>>

(* An ask that starts its script without recording the time. *)
Dispatch_NoTimestamp(c) ==
  /\ pc[c] = "dispatch"
  /\ pc' = [pc EXCEPT ![c] = "script"]
  /\ obs' = [obs EXCEPT ![c].effects = @ \cup {"dispatch"},
                        ![c].trail = Append(@, "dispatch")]
  /\ UNCHANGED <<now, limiter, clipboard, args, wakeAt, scriptVars, result>>

(* lastRequestTime = Date.now() *)
Dispatch(c) ==
  /\ pc[c] = "dispatch"
  /\ lastRequestTime' = now
  /\ dispatched' = TRUE
  /\ pc' = [pc EXCEPT ![c] = "script"]
  /\ obs' = [obs EXCEPT ![c].effects = @ \cup {"dispatch"},
                        ![c].trail = Append(@, "dispatch")]
  /\ UNCHANGED <<now, clipboard, args, wakeAt, scriptVars, result>>

(***************************************************************************)
(* The prompt as askChatGPT embeds it in the script: every double quote    *)
(* becomes backslash double quote, every newline becomes backslash n.      *)
(***************************************************************************)
RECURSIVE EscapePrompt(_)
EscapePrompt(p) ==
  IF p = "" THEN ""
  ELSE LET ch == CharAt(p, 1)
           rest == EscapePrompt(SubSeq(p, 2, Len(p)))
       IN IF ch = "\"" THEN "\\\"" \o rest
          ELSE IF ch = "\n" THEN "\\n" \o rest
          ELSE ch \o rest

(***************************************************************************)
(* How the script compiler reads a string literal: src is the text that    *)
(* follows the opening double quote up to the end of the line.  A          *)
(* backslash takes the next character with it; an unescaped double quote   *)
(* ends the literal, and the line must end there.                          *)
(***************************************************************************)
Unescaped(ch) ==
  IF ch = "n" THEN "\n" ELSE IF ch = "t" THEN "\t" ELSE IF ch = "r" THEN "\r" ELSE ch

RECURSIVE ReadLiteral(_, _)
ReadLiteral(src, acc) ==
  IF src = "" THEN [ok |-> FALSE, value |-> ""]
  ELSE LET ch == CharAt(src, 1)
       IN IF ch = "\""
          THEN [ok |-> Len(src) = 1, value |-> acc]
          ELSE IF ch = "\\"
          THEN IF Len(src) >= 2 /\ CharAt(src, 2) \in {"\"", "\\", "n", "t", "r"}
               THEN ReadLiteral(SubSeq(src, 3, Len(src)), acc \o Unescaped(CharAt(src, 2)))
               ELSE [ok |-> FALSE, value |-> ""]
          ELSE ReadLiteral(SubSeq(src, 2, Len(src)), acc \o ch)

PromptLiteral(p) == ReadLiteral(EscapePrompt(p) \o "\"", "")

(***************************************************************************)
(* askChatGPT's catch block, then the handler's: the script has failed.    *)
(***************************************************************************)
FailScript(c, step) ==
  /\ Fail(c, "Failed to get response from ChatGPT: " \o ScriptError)
  /\ obs' = [obs EXCEPT ![c].cause = "askscript", ![c].effects = @ \cup {"script"},
                        ![c].trail = @ \o step]
  /\ args' = [args EXCEPT ![c] = NoArgs]

(***************************************************************************)
(* The automation script of askChatGPT, statement by statement.  Each      *)
(* command sent to the application or to System Events may fail, which     *)
(* ends the script unless the command stands in a try block.               *)
(***************************************************************************)
StartScript(c) ==
  /\ pc[c] = "script"
  /\ \E ok \in BOOLEAN :
       IF PromptLiteral(Val(args[c].prompt)).ok /\ ok
       THEN /\ pc' = [pc EXCEPT ![c] =
                        IF TruthyString(args[c].conversation_id) THEN "select" ELSE "snapshot"]
            /\ obs' = [obs EXCEPT ![c].effects = @ \cup {"script"}]
            /\ UNCHANGED <<args, result>>
       ELSE FailScript(c, <<>>)
  /\ UNCHANGED <<now, limiter, clipboard, wakeAt, scriptVars>>

(* A click on the conversation outside any try block. *)
SelectConversation_Required(c) ==
  /\ pc[c] = "select"
  /\ \E ok \in BOOLEAN :
       IF ok
       THEN /\ pc' = [pc EXCEPT ![c] = "snapshot"]
            /\ obs' = [obs EXCEPT ![c].selected = Some(ok), ![c].trail = Append(@, "select")]
            /\ UNCHANGED <<args, result>>
       ELSE /\ Fail(c, "Failed to get response from ChatGPT: " \o ScriptError)
            /\ obs' = [obs EXCEPT ![c].selected = Some(ok), ![c].trail = Append(@, "select"),
                                  ![c].cause = "askscript"]
            /\ args' = [args EXCEPT ![c] = NoArgs]
  /\ UNCHANGED <<now, limiter, clipboard, wakeAt, scriptVars>>

(* click button conversationId, inside try: a failure is ignored. *)
SelectConversation(c) ==
  /\ pc[c] = "select"
  /\ \E ok \in BOOLEAN :
       /\ pc' = [pc EXCEPT ![c] = IF ok THEN "snapshot" ELSE "snapshot"]
       /\ obs' = [obs EXCEPT ![c].selected = Some(ok), ![c].trail = Append(@, "select")]
  /\ UNCHANGED <<now, limiter, clipboard, args, wakeAt, scriptVars, result>>

(* set thePrompt to ...; set originalClipboard to the clipboard.  The       *)
(* script reads nothing of the call's arguments from here on, and the      *)
(* rate limiter's timer is long over.                                      *)
Snapshot(c) ==
  /\ pc[c] = "snapshot"
  /\ thePrompt' = [thePrompt EXCEPT ![c] = PromptLiteral(Val(args[c].prompt)).value]
  /\ originalClipboard' = [originalClipboard EXCEPT ![c] = clipboard]
  /\ args' = [args EXCEPT ![c] = NoArgs]
  /\ wakeAt' = [wakeAt EXCEPT ![c] = 0]
  /\ pc' = [pc EXCEPT ![c] = "setclip"]
  /\ obs' = [obs EXCEPT ![c].trail = Append(@, "snapshot")]
  /\ UNCHANGED <<now, limiter, clipboard, pasteDelay, waitTime,
                 previousResponseLength, stableResponseCount, responseText, result>>

(* set the clipboard to thePrompt *)
SetClipboard(c) ==
  /\ pc[c] = "setclip"
  /\ clipboard' = thePrompt[c]
  /\ pc' = [pc EXCEPT ![c] = "focus"]
  /\ obs' = [obs EXCEPT ![c].effects = @ \cup {"clipboard"},
                        ![c].trail = Append(@, "clipboard")]
  /\ UNCHANGED <<now, limiter, args, wakeAt, scriptVars, result>>

(* A command outside any try block: it succeeds, or the script fails. *)
Command(c, from, to) ==
  /\ pc[c] = from
  /\ \E ok \in BOOLEAN :
       IF ok
       THEN /\ pc' = [pc EXCEPT ![c] = to]
            /\ obs' = [obs EXCEPT ![c].trail = Append(@, from)]
            /\ UNCHANGED <<args, result>>
       ELSE FailScript(c, <<from>>)
  /\ UNCHANGED <<now, limiter, clipboard, wakeAt, scriptVars>>

(* click text field 1 *)
Focus(c) == Command(c, "focus", "paste")

(* A wait of one second at least in place of one second more. *)
PasteDelay_AtLeastOneSecond(promptLength) ==
  IF promptLength >= 1000 THEN promptLength ELSE 1000

(* set pasteDelay to promptLength / 1000 + 1, a number of seconds, here in  *)
(* milliseconds.                                                           *)
PasteDelay(promptLength) == promptLength + 1000

(* keystroke "v" using command down, then delay pasteDelay *)
Paste(c) ==
  /\ pc[c] = "paste"
  /\ \E ok \in BOOLEAN :
       IF ok
       THEN /\ pasteDelay' = [pasteDelay EXCEPT ![c] = PasteDelay(Len(thePrompt[c]))]
            /\ pc' = [pc EXCEPT ![c] = "send"]
            /\ obs' = [obs EXCEPT ![c].trail = Append(@, "paste")]
            /\ UNCHANGED <<args, result>>
       ELSE /\ FailScript(c, <<"paste">>)
            /\ UNCHANGED pasteDelay
  /\ UNCHANGED <<now, limiter, clipboard, wakeAt, thePrompt, originalClipboard,
                 waitTime, previousResponseLength, stableResponseCount, responseText>>

(* keystroke return *)
Send(c) == Command(c, "send", "restore")

(* set the clipboard to originalClipboard, and the set statements before   *)
(* the loop.  thePrompt and originalClipboard are not read afterwards.     *)
Restore(c) ==
  /\ pc[c] = "restore"
  /\ clipboard' = originalClipboard[c]
  /\ thePrompt' = [thePrompt EXCEPT ![c] = ""]
  /\ originalClipboard' = [originalClipboard EXCEPT ![c] = ""]
  /\ pasteDelay' = [pasteDelay EXCEPT ![c] = 0]
  /\ waitTime' = [waitTime EXCEPT ![c] = 0]
  /\ previousResponseLength' = [previousResponseLength EXCEPT ![c] = 0]
  /\ stableResponseCount' = [stableResponseCount EXCEPT ![c] = 0]
  /\ responseText' = [responseText EXCEPT ![c] = ""]
  /\ pc' = [pc EXCEPT ![c] = "poll"]
  /\ obs' = [obs EXCEPT ![c].trail = Append(@, "restore")]
  /\ UNCHANGED <<now, limiter, args, wakeAt, result>>


(***************************************************************************)
(* The handler's return for ask.                                           *)
(***************************************************************************)
(* A handler that returns the response as it is. *)
AskResult_Unchecked(response) == [isError |-> FALSE, text |-> response]

AskResult(response) ==
  [isError |-> FALSE,
   text |-> IF response # "" THEN response ELSE "No response received from ChatGPT."]

ScenarioA == <<0, 0, 5, 9, 9, 9, 9>>
ScenarioB == <<0, 3, 3, 3, 3>>

Follows(scenario, n, len) == n <= Len(scenario) /\ scenario[n] = len

(* What the polls of the call have observed, after a poll that read text   *)
(* (the empty text when the read failed).                                  *)
Polled(c, text) ==
  LET o == obs[c]
      len == Len(text)
  IN [o EXCEPT !.polls = @ + 1,
               !.trail = IF o.polls = 0 THEN Append(@, "poll") ELSE @,
               !.lastLen = len,
               !.run = IF len = 0 THEN 0 ELSE IF len = o.lastLen THEN @ + 1 ELSE 1,
               !.seen = IF len > 0 THEN text ELSE @,
               !.onA = @ /\ Follows(ScenarioA, o.polls + 1, len),
               !.onB = @ /\ Follows(ScenarioB, o.polls + 1, len)]

(* The stability test without its guard against an empty response. *)
Stable_NoGuard(currentLength, previousLength) ==
  currentLength = previousLength

(* currentLength > 0 and currentLength = previousResponseLength *)
Stable(currentLength, previousLength) ==
  currentLength > 0 /\ currentLength = previousLength

(* A loop that counts the first sample of a run as a stable check. *)
ReachedStable_OneEarly(count) == count + 1 >= StableChecks

(* stableResponseCount >= 3 *)
ReachedStable(count) == count >= StableChecks

(***************************************************************************)
(* One iteration of the polling loop.  read is what the response area      *)
(* shows, or None when reading it fails.  When the loop is left by exit    *)
(* repeat, neither branch of the if after the loop applies, the script     *)
(* returns responseText and the handler returns it.                        *)
(***************************************************************************)
(* A loop that ends as soon as the maximum wait is reached. *)
LoopEnds_AtMaximum(waited) == waited >= maxWaitTime

(* repeat until waitTime > maxWaitTime *)
LoopEnds(waited) == waited > maxWaitTime

Poll(c) ==
  /\ pc[c] = "poll"
  /\ ~LoopEnds(waitTime[c])
  /\ \E read \in {None} \cup {Some(t) : t \in ResponseTexts} :
       LET currentResponseText == IF IsSome(read) THEN Val(read) ELSE ""
           currentLength == Len(currentResponseText)
           stable == Stable(currentLength, previousResponseLength[c])
           count == IF stable THEN stableResponseCount[c] + 1 ELSE 0
       IN
       /\ stableResponseCount' = [stableResponseCount EXCEPT ![c] = count]
       /\ IF stable /\ ReachedStable(count)
          THEN /\ responseText' = [responseText EXCEPT ![c] = currentResponseText]
               /\ result' = [result EXCEPT ![c] = AskResult(currentResponseText)]
               /\ pc' = [pc EXCEPT ![c] = "done"]
               /\ obs' = [obs EXCEPT ![c] = [Polled(c, currentResponseText) EXCEPT !.exit = "stable"]]
               /\ UNCHANGED <<previousResponseLength, waitTime>>
          ELSE /\ previousResponseLength' = [previousResponseLength EXCEPT ![c] = currentLength]
               /\ waitTime' = [waitTime EXCEPT ![c] = @ + pollInterval]
               /\ obs' = [obs EXCEPT ![c] = Polled(c, currentResponseText)]
               /\ UNCHANGED <<responseText, result, pc>>
  /\ UNCHANGED <<now, limiter, clipboard, args, wakeAt, thePrompt, originalClipboard, pasteDelay>>

(* The if after the loop, when waitTime > maxWaitTime: read is what the    *)
(* response area shows then, or None when reading it fails.                *)
(* An if after the loop that reads the response area whatever the last    *)
(* poll saw.                                                               *)
TimeoutText_AlwaysRead(previousLength, read) ==
  IF IsSome(read) THEN Val(read)
  ELSE "Could not retrieve the complete response from ChatGPT (timed out)."

TimeoutText(previousLength, read) ==
  IF previousLength > 0
  THEN IF IsSome(read) THEN Val(read)
       ELSE "Could not retrieve the complete response from ChatGPT (timed out)."
  ELSE "ChatGPT took too long to respond. Please try again with a simpler question."

(***************************************************************************)
(* The loop ends because waitTime > maxWaitTime; the if after the loop,    *)
(* the script's return and the handler's return.                           *)
(***************************************************************************)
TimedOut(c) ==
  /\ pc[c] = "poll"
  /\ LoopEnds(waitTime[c])
  /\ \E read \in {None} \cup {Some(t) : t \in ResponseTexts} :
       LET final == TimeoutText(previousResponseLength[c], read)
       IN
       /\ previousResponseLength[c] = 0 => read = None
       /\ responseText' = [responseText EXCEPT ![c] = final]
       /\ result' = [result EXCEPT ![c] = AskResult(final)]
       /\ obs' = [obs EXCEPT ![c].exit = "timeout", ![c].cause = "timeout",
                             ![c].reread = IF previousResponseLength[c] > 0 THEN Some(read) ELSE None]
  /\ pc' = [pc EXCEPT ![c] = "done"]
  /\ UNCHANGED <<now, limiter, clipboard, args, wakeAt, thePrompt, originalClipboard, pasteDelay,
                 waitTime, previousResponseLength, stableResponseCount>>


(***************************************************************************)
(* getConversations after the reachability check.                          *)
(***************************************************************************)
MaxButtons == 2
ButtonNames == {"New chat", "Trip plan", "Tax, 2024"}
ButtonLists == UNION {[1..n -> ButtonNames] : n \in 0..MaxButtons}

RECURSIVE Join(_, _)
Join(list, sep) ==
  IF Len(list) = 0 THEN ""
  ELSE IF Len(list) = 1 THEN list[1]
  ELSE list[1] \o sep \o Join(Tail(list), sep)

(* The repeat loop of the script: the names other than "New chat". *)
IsConversation(buttonName) == buttonName # "New chat"
ConversationsList(chatButtons) == SelectSeq(chatButtons, IsConversation)

(* The text runAppleScript resolves to for a list of texts: the items      *)
(* separated by a comma and a space.                                       *)
ScriptOutput(list) == Join(list, ", ")

(* String.prototype.split with a non-empty separator. *)
RECURSIVE SplitFrom(_, _, _)
SplitFrom(str, sep, cur) ==
  IF str = "" THEN <<cur>>
  ELSE IF Len(str) >= Len(sep) /\ SubSeq(str, 1, Len(sep)) = sep
  THEN <<cur>> \o SplitFrom(SubSeq(str, Len(sep) + 1, Len(str)), sep, "")
  ELSE SplitFrom(SubSeq(str, 2, Len(str)), sep, cur \o CharAt(str, 1))

Split(str, sep) == SplitFrom(str, sep, "")

ListingOutcomes == {"listed", "enumerationFailed", "scriptFailed"}

(* A getConversations whose catch block returns no element. *)
Conversations_EmptyOnError(outcome, chatButtons) ==
  IF outcome = "scriptFailed" THEN <<>>
  ELSE IF outcome = "enumerationFailed"
  THEN Split(ScriptOutput(<<"Unable to retrieve conversations">>), ", ")
  ELSE Split(ScriptOutput(ConversationsList(chatButtons)), ", ")

(* The value getConversations returns. *)
Conversations(outcome, chatButtons) ==
  IF outcome = "scriptFailed" THEN <<"Error retrieving conversations">>
  ELSE IF outcome = "enumerationFailed"
  THEN Split(ScriptOutput(<<"Unable to retrieve conversations">>), ", ")
  ELSE Split(ScriptOutput(ConversationsList(chatButtons)), ", ")

(* The handler's return for get_conversations. *)
ListResult(conversations) ==
  [isError |-> FALSE,
   text |-> IF Len(conversations) > 0
            THEN "Found " \o ToString(Len(conversations)) \o " conversation(s):\n\n"
                   \o Join(conversations, "\n")
            ELSE "No conversations found in ChatGPT."]

getConversations(c) ==
  /\ pc[c] = "list"
  /\ \E outcome \in ListingOutcomes, chatButtons \in ButtonLists :
       LET conversations == Conversations(outcome, chatButtons)
       IN
       /\ outcome # "listed" => chatButtons = <<>>
       /\ result' = [result EXCEPT ![c] = ListResult(conversations)]
       /\ obs' = [obs EXCEPT ![c].cause = IF outcome = "listed" THEN "none" ELSE "listing",
                             ![c].effects = @ \cup {"script"},
                             ![c].trail = Append(@, "enumerate"),
                             ![c].buttons = IF outcome = "listed" THEN Some(chatButtons) ELSE None,
                             ![c].listed = Some(conversations)]
  /\ pc' = [pc EXCEPT ![c] = "done"]
  /\ UNCHANGED <<now, limiter, clipboard, args, wakeAt, scriptVars>>

(* A new call takes the lowest free slot. *)
FreeSlot(c) == pc[c] = "idle" /\ \A d \in Calls : pc[d] = "idle" => c <= d

(***************************************************************************)
(* One tool call at a time: a call starts when no other call is in flight. *)
(***************************************************************************)
Step(c) ==
  \/ checkChatGPTAccess(c)
  \/ waitForRateLimit(c)
  \/ Wake(c)
  \/ Dispatch(c)
  \/ StartScript(c)
  \/ SelectConversation(c)
  \/ Snapshot(c)
  \/ SetClipboard(c)
  \/ Focus(c)
  \/ Paste(c)
  \/ Send(c)
  \/ Restore(c)
  \/ Poll(c)
  \/ TimedOut(c)
  \/ getConversations(c)
  \/ Return(c)

Next ==
  \/ Tick
  \/ UserCopy
  \/ \E c \in Calls :
       \/ Quiet /\ FreeSlot(c) /\ \E req \in Requests : CallTool(c, req)
       \/ Step(c)

Spec == Init /\ [][Next]_vars

(***************************************************************************)
(* Overlapping tool calls.  The handler takes a request whenever one       *)
(* arrives: it holds no lock and no queue, so a call starts while another  *)
(* is in flight and the calls interleave where the code awaits: the        *)
(* reachability check, the rate limiter's sleep and every statement of the *)
(* script, which runs in a process of its own.  Between the end of the     *)
(* check or of the sleep and the start of the script the code awaits       *)
(* nothing that another call could complete, so a call in the rate         *)
(* limiter's test or about to assign lastRequestTime runs before anything  *)
(* else does.  The polls of a call read and write nothing another call     *)
(* shares, and this specification follows the calls up to their first      *)
(* poll.                                                                   *)
(***************************************************************************)
ConcurrentRequests ==
  {req \in Requests :
     /\ req.name = "chatgpt"
     /\ IsSome(req.arguments)
     /\ Val(req.arguments).operation = "ask"
     /\ Val(req.arguments).prompt \in {Some("hi"), Some("a\"b")}
     /\ Val(req.arguments).conversation_id = None
     /\ Val(req.arguments).delay_ms = None}

Running == \E c \in Calls : pc[c] \in {"rate", "dispatch"}

Awaited(c) ==
  \/ checkChatGPTAccess(c)
  \/ Wake(c)
  \/ StartScript(c)
  \/ Snapshot(c)
  \/ SetClipboard(c)
  \/ Focus(c)
  \/ Paste(c)
  \/ Send(c)
  \/ Restore(c)
  \/ Return(c)

NextConcurrent ==
  \/ ~Running /\ Tick
  \/ \E c \in Calls :
       \/ ~Running /\ FreeSlot(c) /\ \E req \in ConcurrentRequests : CallTool(c, req)
       \/ ~Running /\ Awaited(c)
       \/ waitForRateLimit(c)
       \/ Dispatch(c)

SpecConcurrent == Init /\ [][NextConcurrent]_vars


(***************************************************************************)
(* The interval the documentation gives an ask: its delay_ms when one is   *)
(* supplied, the default otherwise.                                        *)
(***************************************************************************)
DocumentedInterval(delay_ms) ==
  IF IsSome(delay_ms) THEN Val(delay_ms) ELSE RATE_LIMIT_DELAY

(***************************************************************************)
(* C1: with one ask at a time, the step that assigns lastRequestTime sets  *)
(* it no earlier than the previous dispatch time plus the documented       *)
(* interval of the ask being dispatched.                                   *)
(***************************************************************************)
C1_DispatchSpacing ==
  [][\A c \in Calls :
       (pc[c] = "dispatch" /\ pc'[c] = "script")
         => lastRequestTime' >= lastRequestTime + DocumentedInterval(args[c].delay_ms)]_vars

(* An ask that slept in the rate limiter, after an earlier dispatch, has   *)
(* been dispatched.                                                        *)
C1_Witness ==
  \E c \in Calls :
    /\ pc[c] = "script"
    /\ args[c].delay_ms = None
    /\ wakeAt[c] > StartTime
    /\ lastRequestTime >= wakeAt[c]

(***************************************************************************)
(* C7: an ask sleeping in the rate limiter was given no delay_ms of 0, and *)
(* its sleep ends when the documented interval has passed since the        *)
(* previous dispatch.                                                      *)
(***************************************************************************)
C7_OverrideIsInterval ==
  \A c \in Calls :
    pc[c] = "sleep"
      => /\ args[c].delay_ms # Some(0)
         /\ wakeAt[c] = lastRequestTime + DocumentedInterval(args[c].delay_ms)


(***************************************************************************)
(* C2: once an ask that has written the prompt to the clipboard has ended, *)
(* by success or by error, the clipboard holds what it held when the call  *)
(* started.                                                                *)
(***************************************************************************)
C2_ClipboardRestored ==
  \A c \in Calls :
    (pc[c] = "done" /\ "clipboard" \in obs[c].effects) => clipboard = obs[c].preClip

(***************************************************************************)
(* The consecutive stable samples the polls of a call have just seen: the  *)
(* latest polls that each read the non-zero length of the poll before.     *)
(***************************************************************************)
StableSamples(c) == IF obs[c].run > 0 THEN obs[c].run - 1 ELSE 0

(***************************************************************************)
(* C3: while the loop runs, the stable counter is the number of            *)
(* consecutive stable samples just seen (so it grows only on a poll whose  *)
(* length is non-zero and that of the poll before, and is 0 after any      *)
(* other poll); the loop is left through the stability exit only with a    *)
(* non-zero length and the required number of consecutive stable samples.  *)
(***************************************************************************)
C3_StabilityExit ==
  \A c \in Calls :
    /\ pc[c] = "poll" => stableResponseCount[c] = StableSamples(c)
    /\ obs[c].exit = "stable"
         => /\ obs[c].lastLen > 0
            /\ obs[c].seen # ""
            /\ StableSamples(c) = StableChecks
            /\ stableResponseCount[c] = StableChecks

C3_Witness ==
  \E c \in Calls : obs[c].exit = "stable" /\ obs[c].polls > StableChecks + 1

(***************************************************************************)
(* C4 as stated: the loop is left through the stability exit exactly on    *)
(* the poll that reads the third consecutive sample of one non-zero        *)
(* length; on the lengths 0,0,5,9,9,9 that is the sixth poll, and on       *)
(* 0,3,3,3 the fourth, which returns the text of length 3.                 *)
(***************************************************************************)
C4_DoneAtThirdSample ==
  \A c \in Calls :
    /\ obs[c].exit = "stable" <=> obs[c].run = 3
    /\ (obs[c].onA /\ obs[c].polls = 6) => obs[c].exit = "stable"
    /\ (obs[c].onB /\ obs[c].polls = 4)
         => (obs[c].exit = "stable" /\ Len(result[c].text) = 3)

(***************************************************************************)
(* C4 amended: the loop is left through the stability exit exactly on the  *)
(* poll that reads the fourth consecutive sample of one non-zero length    *)
(* (the third that repeats the sample before it).  On 0,0,5,9,9,9 the loop *)
(* is still running after the sixth poll and ends on a seventh poll that   *)
(* reads 9; on 0,3,3,3 it is still running after the fourth poll and ends  *)
(* on a fifth poll that reads 3, returning the text of length 3.           *)
(***************************************************************************)
C4_DoneAtFourthSample ==
  \A c \in Calls :
    /\ obs[c].exit = "stable" <=> obs[c].run = StableChecks + 1
    /\ (obs[c].onA /\ obs[c].polls = 6) => (pc[c] = "poll" /\ obs[c].exit = "none")
    /\ (obs[c].onA /\ obs[c].polls = 7)
         => (obs[c].exit = "stable" /\ Len(result[c].text) = 9 /\ ~result[c].isError)
    /\ (obs[c].onB /\ obs[c].polls = 4) => (pc[c] = "poll" /\ obs[c].exit = "none")
    /\ (obs[c].onB /\ obs[c].polls = 5)
         => (obs[c].exit = "stable" /\ Len(result[c].text) = 3 /\ ~result[c].isError)

C4_Witness ==
  \E c \in Calls : obs[c].onA /\ obs[c].polls = 7 /\ obs[c].exit = "stable"

TimeoutSentinel == "ChatGPT took too long to respond. Please try again with a simpler question."
RereadFailedSentinel == "Could not retrieve the complete response from ChatGPT (timed out)."
NoResponseSentinel == "No response received from ChatGPT."

(***************************************************************************)
(* C5 as stated: after a timeout the ask returns, without error, the       *)
(* latest non-empty text a poll observed if there was one, and the timeout *)
(* sentinel otherwise.                                                     *)
(***************************************************************************)
C5_TimeoutReturnsLastSeen ==
  \A c \in Calls :
    obs[c].exit = "timeout"
      => /\ ~result[c].isError
         /\ result[c].text = IF obs[c].seen # "" THEN obs[c].seen ELSE TimeoutSentinel

(***************************************************************************)
(* C5 amended: after a timeout the ask never returns an error.  If the     *)
(* last poll of the loop observed a non-empty text, the response area is   *)
(* read once more and the ask returns what it shows then: that text, the   *)
(* "no response" sentinel when it is empty, the "could not retrieve"       *)
(* message when the read fails.  If the last poll observed no text, the    *)
(* ask returns the timeout sentinel, whatever earlier polls observed.      *)
(***************************************************************************)
C5_TimeoutReturnsReread ==
  \A c \in Calls :
    obs[c].exit = "timeout"
      => /\ ~result[c].isError
         /\ IF obs[c].lastLen > 0
            THEN /\ IsSome(obs[c].reread)
                 /\ LET read == Val(obs[c].reread)
                    IN result[c].text =
                         IF read = None THEN RereadFailedSentinel
                         ELSE IF Val(read) = "" THEN NoResponseSentinel
                         ELSE Val(read)
            ELSE /\ obs[c].reread = None
                 /\ result[c].text = TimeoutSentinel

(* A timeout whose last poll saw no text although an earlier poll did. *)
C5_Witness ==
  \E c \in Calls :
    obs[c].exit = "timeout" /\ obs[c].lastLen = 0 /\ obs[c].seen # ""

(***************************************************************************)
(* C6: a call with operation ask whose prompt is missing or empty is over  *)
(* at once with an error result, having performed no reachability check,   *)
(* no rate limiting, no assignment of lastRequestTime, no clipboard write  *)
(* and no script.                                                          *)
(***************************************************************************)
PromptMissingOrEmpty(a) == a.prompt = None \/ a.prompt = Some("")

C6_EmptyPromptRejected ==
  \A c \in Calls :
    (args[c].operation = "ask" /\ PromptMissingOrEmpty(args[c]))
      => /\ pc[c] = "done"
         /\ result[c].isError
         /\ obs[c].effects = {}
         /\ clipboard = obs[c].preClip
         /\ wakeAt[c] = 0

C6_Witness ==
  \E c \in Calls :
    /\ pc[c] = "done"
    /\ args[c].operation = "ask"
    /\ args[c].prompt = Some("")
    /\ lastRequestTime > 0


(***************************************************************************)
(* C8: when the enumeration of the buttons fails, in the script or with    *)
(* the script, getConversations returns exactly one element, which names   *)
(* the failure, and the call's result is no error.                         *)
(***************************************************************************)
ListingFailureSignals ==
  {"Unable to retrieve conversations", "Error retrieving conversations"}

C8_ListingFailureAbsorbed ==
  \A c \in Calls :
    obs[c].cause = "listing"
      => /\ pc[c] = "done"
         /\ IsSome(obs[c].listed)
         /\ Len(Val(obs[c].listed)) = 1
         /\ Val(obs[c].listed)[1] \in ListingFailureSignals
         /\ ~result[c].isError

C8_Witness ==
  \E c \in Calls :
    /\ obs[c].cause = "listing"
    /\ obs[c].listed = Some(<<"Error retrieving conversations">>)
    /\ pc[c] = "done"

(***************************************************************************)
(* C9: a successful get_conversations returns the "no conversations"       *)
(* sentinel exactly when no button other than "New chat" is shown, and     *)
(* otherwise the number of the buttons not named "New chat" followed by    *)
(* their names, once each, in the order shown, one to a line.              *)
(***************************************************************************)
NotNewChat(name) == name # "New chat"

C9_ListingText ==
  \A c \in Calls :
    (pc[c] = "done" /\ IsSome(obs[c].buttons))
      => LET shown == SelectSeq(Val(obs[c].buttons), NotNewChat)
         IN /\ ~result[c].isError
            /\ result[c].text =
                 IF shown = <<>>
                 THEN "No conversations found in ChatGPT."
                 ELSE "Found " \o ToString(Len(shown)) \o " conversation(s):\n\n"
                        \o Join(shown, "\n")

HasPrefix(text, prefix) ==
  Len(text) >= Len(prefix) /\ SubSeq(text, 1, Len(prefix)) = prefix

ErrorCauses == {"validation", "reachability", "askscript"}
AbsorbedCauses == {"listing", "timeout"}

(***************************************************************************)
(* C10 as stated: a finished call has an error result, with the text       *)
(* "Error: " and a message, exactly when validation, the reachability      *)
(* check or the script of ask failed; a listing failure and a timeout give *)
(* no error result.                                                        *)
(***************************************************************************)
C10_ErrorOnThreeCauses ==
  \A c \in Calls :
    pc[c] = "done"
      => /\ result[c].isError <=> obs[c].cause \in ErrorCauses
         /\ result[c].isError => HasPrefix(result[c].text, "Error: ")
         /\ obs[c].cause \in AbsorbedCauses => ~result[c].isError

(***************************************************************************)
(* C10 amended: a finished call has an error result exactly when           *)
(* validation, the reachability check or the script of ask failed, or the  *)
(* request names another tool than chatgpt; the text is "Error: " and a    *)
(* message in the first three cases and "Unknown tool: " and the name in   *)
(* the last.  A listing failure and a timeout give no error result.        *)
(***************************************************************************)
C10_ErrorCauses ==
  \A c \in Calls :
    pc[c] = "done"
      => /\ result[c].isError <=> obs[c].cause \in ErrorCauses \cup {"unknowntool"}
         /\ obs[c].cause \in ErrorCauses
              => (HasPrefix(result[c].text, "Error: ") /\ Len(result[c].text) > Len("Error: "))
         /\ obs[c].cause = "unknowntool" => HasPrefix(result[c].text, "Unknown tool: ")
         /\ obs[c].cause \in AbsorbedCauses => ~result[c].isError

(* The script of an ask has failed after the clipboard was written. *)
C10_Witness ==
  \E c \in Calls :
    /\ pc[c] = "done"
    /\ obs[c].cause = "askscript"
    /\ "clipboard" \in obs[c].effects
    /\ result[c].isError

(***************************************************************************)
(* C11: with asks in flight at the same time, once an ask has been         *)
(* dispatched every later step that assigns lastRequestTime sets it no     *)
(* earlier than the previous dispatch time plus the documented interval of *)
(* the ask being dispatched.                                               *)
(***************************************************************************)
C11_OverlappingDispatchSpacing ==
  [][\A c \in Calls :
       (dispatched /\ pc[c] = "dispatch" /\ pc'[c] = "script")
         => lastRequestTime' - lastRequestTime >= DocumentedInterval(args[c].delay_ms)]_vars

(***************************************************************************)
(* C12: no two asks are at the same time between their clipboard snapshot  *)
(* and their clipboard restore, and from its clipboard write to its paste  *)
(* an ask finds its own prompt on the clipboard.                           *)
(***************************************************************************)
InClipboardSection(c) == pc[c] \in {"setclip", "focus", "paste", "send", "restore"}

C12_ClipboardCriticalSection ==
  /\ \A c, d \in Calls : c # d => ~(InClipboardSection(c) /\ InClipboardSection(d))
  /\ \A c \in Calls : pc[c] \in {"focus", "paste"} => clipboard = thePrompt[c]

(***************************************************************************)
(* C13: the steps a call has taken are an initial part of the fixed order  *)
(* of an ask (reachability check, rate-limit wait, dispatch-timestamp      *)
(* update, optional conversation selection, clipboard snapshot, clipboard  *)
(* write, input focus, paste, send, clipboard restore, polling) or of a    *)
(* listing (reachability check, enumeration); a call whose reachability    *)
(* check failed has taken no other step and has ended with the clipboard   *)
(* as it found it.                                                         *)
(***************************************************************************)
AskOrder ==
  <<"reachability", "ratelimit", "dispatch", "snapshot", "clipboard", "focus", "paste",
    "send", "restore", "poll">>
AskOrderSelecting ==
  <<"reachability", "ratelimit", "dispatch", "select", "snapshot", "clipboard", "focus",
    "paste", "send", "restore", "poll">>
ListOrder == <<"reachability", "enumerate">>

IsPrefix(s, t) == Len(s) <= Len(t) /\ SubSeq(t, 1, Len(s)) = s

C13_StepOrder ==
  \A c \in Calls :
    /\ \/ IsPrefix(obs[c].trail, AskOrder)
       \/ IsPrefix(obs[c].trail, AskOrderSelecting)
       \/ IsPrefix(obs[c].trail, ListOrder)
    /\ obs[c].cause = "reachability"
         => /\ obs[c].trail = <<"reachability">>
            /\ obs[c].effects = {"reachability"}
            /\ pc[c] = "done"
            /\ clipboard = obs[c].preClip
    /\ "dispatch" \in obs[c].effects => IsPrefix(<<"reachability", "ratelimit", "dispatch">>, obs[c].trail)
    /\ pc[c] = "list" => obs[c].trail = <<"reachability">>

(* An ask with a conversation to select has taken every step up to its     *)
(* first poll.                                                             *)
C13_Witness == \E c \in Calls : obs[c].trail = AskOrderSelecting

(***************************************************************************)
(* C14: the wait between the paste keystroke and the send keystroke is the *)
(* larger of 1000 ms and one millisecond per character of the pasted       *)
(* prompt.                                                                 *)
(***************************************************************************)
Max(a, b) == IF a >= b THEN a ELSE b

C14_PasteWaitIsMaximum ==
  \A c \in Calls :
    pc[c] = "send" => pasteDelay[c] = Max(1000, Len(thePrompt[c]))

(***************************************************************************)
(* C14 amended: the wait between the paste keystroke and the send          *)
(* keystroke is 1000 ms plus one millisecond per character of the pasted   *)
(* prompt, so it is longer than 1000 ms for every prompt.                  *)
(***************************************************************************)
C14_PasteWaitIsSum ==
  \A c \in Calls :
    pc[c] = "send"
      => /\ pasteDelay[c] = 1000 + Len(thePrompt[c])
         /\ pasteDelay[c] > Max(1000, Len(thePrompt[c]))

(* An ask has pasted a prompt of three characters and waits before send. *)
C14_Witness ==
  \E c \in Calls : pc[c] = "send" /\ Len(thePrompt[c]) = 3 /\ pasteDelay[c] = 1003

(***************************************************************************)
(* C15: the literal the script is given for the prompt of a dispatched ask *)
(* is well formed and reads back as the prompt itself, character for       *)
(* character.                                                              *)
(***************************************************************************)
C15_PromptVerbatim ==
  \A c \in Calls :
    pc[c] \in {"script", "select", "snapshot"}
      => LET literal == PromptLiteral(Val(args[c].prompt))
         IN literal.ok /\ literal.value = Val(args[c].prompt)

(***************************************************************************)
(* C16: an ask whose click on the conversation failed goes on with the     *)
(* clipboard snapshot and the steps after it; when it has ended it has     *)
(* written the clipboard, and its result is an error only when a command   *)
(* after the selection (focus, paste, send) failed.                        *)
(***************************************************************************)
C16_SelectionAdvisory ==
  \A c \in Calls :
    obs[c].selected = Some(FALSE)
      => /\ pc[c] \in {"snapshot", "setclip", "focus", "paste", "send", "restore", "poll", "done"}
         /\ pc[c] # "snapshot" => IsPrefix(<<"reachability", "ratelimit", "dispatch", "select",
                                            "snapshot">>, obs[c].trail)
         /\ pc[c] = "done"
              => /\ "clipboard" \in obs[c].effects
                 /\ result[c].isError
                      => /\ obs[c].cause = "askscript"
                         /\ obs[c].trail[Len(obs[c].trail)] \in {"focus", "paste", "send"}

(* An ask whose click on the conversation failed has returned a stable     *)
(* response.                                                               *)
C16_Witness ==
  \E c \in Calls :
    /\ obs[c].selected = Some(FALSE)
    /\ pc[c] = "done"
    /\ obs[c].exit = "stable"
    /\ ~result[c].isError

(***************************************************************************)
(* C17: the polling loop ends whatever the polls read.  With a poll every  *)
(* 3 s and a maximum wait of 120 s a call performs at most 41 polls, each  *)
(* started with an accumulated wait of 3 s per earlier poll and so of no   *)
(* more than 120 s; the loop ends by stability or, after exactly 41 polls, *)
(* by timeout, and the call then returns a text that is no error.          *)
(***************************************************************************)
C17_PollingTerminates ==
  \A c \in Calls :
    /\ obs[c].polls <= 41
    /\ pc[c] = "poll" => /\ waitTime[c] = 3 * obs[c].polls
                         /\ obs[c].exit = "none"
    /\ obs[c].polls > 0 /\ pc[c] # "poll" => pc[c] = "done" /\ obs[c].exit \in {"stable", "timeout"}
    /\ obs[c].exit = "timeout" => obs[c].polls = 41 /\ waitTime[c] = 123
    /\ obs[c].exit # "none"
         => /\ pc[c] = "done"
            /\ ~result[c].isError
            /\ result[c].text # ""

(* The length changed at every second poll until the loop timed out. *)
C17_Witness ==
  \E c \in Calls :
    /\ obs[c].exit = "timeout"
    /\ obs[c].polls = 41
    /\ obs[c].run < 3
    /\ pc[c] = "done"

(***************************************************************************)
(* C18: no ask sleeps in the rate limiter before an ask has been           *)
(* dispatched, whatever its delay_ms; lastRequestTime never decreases, and *)
(* once an ask has been dispatched it is never 0 again.                    *)
(***************************************************************************)
C18_FirstAskNeverSuspended ==
  [][/\ \A c \in Calls : pc'[c] = "sleep" => dispatched'
     /\ lastRequestTime' >= lastRequestTime
     /\ dispatched => dispatched' /\ lastRequestTime' # 0]_vars

(***************************************************************************)
(* C18 amended: before an ask has been dispatched an ask sleeps in the     *)
(* rate limiter only when its delay_ms is larger than the clock reading,   *)
(* and then until the clock reaches its delay_ms; lastRequestTime never    *)
(* decreases, and once an ask has been dispatched it is never 0 again.     *)
(***************************************************************************)
C18_FirstAskSuspendedOnlyBeyondClock ==
  [][/\ \A c \in Calls :
          (pc'[c] = "sleep" /\ ~dispatched')
            => /\ IsSome(args'[c].delay_ms)
               /\ Val(args'[c].delay_ms) > StartTime
               /\ wakeAt'[c] = Val(args'[c].delay_ms)
     /\ \A c \in Calls :
          (pc[c] = "rate" /\ pc'[c] = "sleep" /\ ~dispatched) => Val(args[c].delay_ms) > now
     /\ lastRequestTime' >= lastRequestTime
     /\ dispatched => dispatched' /\ lastRequestTime' # 0]_vars

(* The first ask, with the default interval or an override below the clock *)
(* reading, has passed the rate limiter without sleeping and has been      *)
(* dispatched.                                                             *)
C18_Witness ==
  \E c \in Calls :
    /\ pc[c] = "script"
    /\ wakeAt[c] = 0
    /\ lastRequestTime = StartTime
    /\ now = StartTime
    /\ args[c].delay_ms = Some(TickUnit)

(***************************************************************************)
(* C19: lastRequestTime is changed by one step only, the assignment an ask *)
(* makes after its rate-limit wait and before its script starts, which     *)
(* sets it to the clock reading.  A listing never enters the rate limiter  *)
(* and leaves the clipboard as it found it; a call that was rejected or    *)
(* whose reachability check failed has neither waited in the rate limiter  *)
(* nor been dispatched; an ask whose script failed has been dispatched,    *)
(* and lastRequestTime holds the time of an attempt.                       *)
(***************************************************************************)
C19_LimiterFrame ==
  [][/\ lastRequestTime' # lastRequestTime
          => \E c \in Calls :
               /\ pc[c] = "dispatch" /\ pc'[c] = "script"
               /\ args[c].operation = "ask"
               /\ "ratelimit" \in obs[c].effects
               /\ "script" \notin obs[c].effects
               /\ lastRequestTime' = now
     /\ \A c \in Calls :
          /\ args'[c].operation = "get_conversations"
               => /\ pc'[c] \in {"check", "list", "done"}
                  /\ wakeAt'[c] = 0
                  /\ obs'[c].effects \subseteq {"reachability", "script"}
                  /\ clipboard' = obs'[c].preClip
          /\ obs'[c].cause \in {"validation", "unknowntool", "reachability"}
               => obs'[c].effects \cap {"ratelimit", "dispatch"} = {}
          /\ obs'[c].cause = "askscript"
               => /\ "dispatch" \in obs'[c].effects
                  /\ lastRequestTime' >= StartTime
                  /\ lastRequestTime' <= now']_vars

(* The script of a dispatched ask has failed. *)
C19_Witness ==
  \E c \in Calls :
    /\ pc[c] = "done"
    /\ obs[c].cause = "askscript"
    /\ lastRequestTime = now

(***************************************************************************)
(* C20: the count of stable samples is between 0 and 3 and is above 0 only *)
(* while the previously recorded length is not 0; when the loop has ended  *)
(* by stability the returned text is not empty and as long as the          *)
(* previously recorded length; the text of a successful ask result is      *)
(* never empty, an empty response being replaced by the no-response        *)
(* sentence.                                                               *)
(***************************************************************************)
C20_WatcherInvariants ==
  \A c \in Calls :
    /\ stableResponseCount[c] \in 0..3
    /\ stableResponseCount[c] > 0 => previousResponseLength[c] > 0
    /\ obs[c].exit = "stable"
         => /\ stableResponseCount[c] = 3
            /\ responseText[c] # ""
            /\ Len(responseText[c]) = previousResponseLength[c]
            /\ result[c].text = responseText[c]
    /\ obs[c].exit # "none"
         => /\ ~result[c].isError
            /\ result[c].text # ""
            /\ result[c].text = IF responseText[c] = "" THEN NoResponseSentinel
                                 ELSE responseText[c]

(* After a timeout the response area was read again and was empty: the     *)
(* result carries the no-response sentence.                                *)
C20_Witness ==
  \E c \in Calls :
    /\ obs[c].exit = "timeout"
    /\ responseText[c] = ""
    /\ result[c].text = NoResponseSentinel

====
